---- MODULE Spec2Model ----
(***************************************************************************)
(* State-machine model of the FreeBSD backend of sysinfo:                  *)
(*   src/src/freebsd/system.rs   System (process table, memory)            *)
(*   src/src/freebsd/process.rs  Process, ProcessStatus                    *)
(*   src/src/freebsd/network.rs  Networks, NetworkData                     *)
(*   src/src/freebsd/processor.rs ProcessorSet, Processor, CpuTime, CpuPct *)
(* The operating system (procstat, sysctl, getifaddrs) is the environment: *)
(* every refresh draws what the OS returns from a small set.               *)
(***************************************************************************)
EXTENDS Integers, Sequences, FiniteSets, TLC

VARIABLES
    pids,             \* System.pids : HashMap<Pid, Process>
    kinfo,            \* what procstat_getprocs returned to the last refresh
    pid_arg,          \* the pid argument of the last refresh_process (0: none)
    ret,              \* result of the last operation
    pids_before,      \* System.pids when the last operation started
    interfaces,       \* Networks.interfaces : HashMap<String, NetworkData>
    addrs,            \* what getifaddrs returned to the last refresh
    ifdata,           \* what sysctl net.link.generic.ifdata returned, by name
    inserted,         \* the entries the last refresh passed to interfaces.insert
    interfaces_before,\* Networks.interfaces when the last refresh started
    repeated,         \* the last refresh read the same OS state as the one before
    num_cpus,         \* ProcessorSet.num_cpus : u8
    cpus,             \* ProcessorSet.cpus : Vec<Processor>
    global,           \* ProcessorSet.global : Processor
    cpu_in,           \* what sysctl hw.ncpu and kern.cp_times returned last
    cpu_before,       \* the ProcessorSet, op and cpu_in when the last operation started
    mem_free,         \* System.mem_free : u64 (KB)
    mem_total,        \* System.mem_total : u64 (KB)
    swap_total,       \* System.swap_total : u64 (KB)
    swap_free,        \* System.swap_free : u64 (KB)
    used,             \* what the last get_used_memory or get_used_swap returned
    mem_in,           \* what the sysctl reads of the last refresh_memory returned
    mem_before,       \* the four memory fields when the last operation started
    calls,            \* number of refresh calls made so far
    overflow_checks,  \* build profile: TRUE panics on overflow, FALSE wraps
    op,               \* the last operation
    panicked          \* the thread has panicked (no further operation runs)

procVars == <<pids, kinfo, pid_arg, ret, pids_before>>
netVars == <<interfaces, addrs, ifdata, inserted, interfaces_before, repeated>>
cpuVars == <<num_cpus, cpus, global, cpu_in, cpu_before>>
memVars == <<mem_free, mem_total, swap_total, swap_free, used, mem_in, mem_before>>
vars == <<procVars, netVars, cpuVars, memVars, calls, overflow_checks, op, panicked>>

(***************************************************************************)
(* Bounds of the model.                                                    *)
(***************************************************************************)
\* Number of refresh calls a run makes.
MaxCalls == 2
\* Width of the unsigned counters (u64 in the source, scaled down).
CounterBits == 3
\* Width of ProcessorSet.num_cpus (u8 in the source, scaled down).
CpuCountBits == 2
\* Width of the memory figures (u64 in the source, scaled down; wide enough
\* for a byte count to keep digits after the shift to kilobytes).
MemBits == 15

Pids == {1, 2}
\* A generation is one incarnation of a pid: PID reuse gives a pid a new one.
Gens == {1, 2}
\* Levels of the memory figures of a process between two samples.
MemLevels == {0, 1}
\* The instants at which kern.cp_times is sampled.
TickLevels == {1, 2}
\* The numbers of five-counter groups a kern.cp_times read can hold.
ChunkCounts == {1, 2}

(***************************************************************************)
(* C strings and Option values.  A string is a tuple (<<>> is ""); a C     *)
(* string handed over by the OS carries whether its bytes are valid UTF-8. *)
(***************************************************************************)
EmptyStr == <<>>
CString(tag, g, valid) == [bytes |-> <<tag, g>>, utf8 |-> valid]
None == <<>>
Some(x) == <<x>>

\* CStr::from_ptr(p).to_str().unwrap_or("").to_string()
to_str_or_empty(c) == IF c.utf8 THEN c.bytes ELSE EmptyStr

(***************************************************************************)
(* process.rs                                                              *)
(***************************************************************************)
\* num::FromPrimitive::from_i8(stat).unwrap_or(ProcessStatus::Unknown)
ProcessStatus_from_i8(stat) ==
    CASE stat = 0 -> "Unknown"
      [] stat = 1 -> "Forking"
      [] stat = 2 -> "Runnable"
      [] stat = 3 -> "Sleeping"
      [] stat = 4 -> "Stopped"
      [] stat = 5 -> "Zombie"
      [] stat = 6 -> "InterruptWait"
      [] stat = 7 -> "LockWait"
      [] OTHER -> "Unknown"

\* Process::procstat_to_argv: NULL gives the empty vector; otherwise the
\* strings up to the terminating NULL or the first one that is not UTF-8.
RECURSIVE argv_loop(_, _)
argv_loop(raw, env) ==
    IF raw = <<>> THEN env
    ELSE IF Head(raw).utf8 THEN argv_loop(Tail(raw), Append(env, Head(raw).bytes))
    ELSE env

procstat_to_argv(raw) ==
    IF raw.null THEN <<>> ELSE argv_loop(raw.strs, <<>>)

\* Process::procstat_files: walks the filestat list; the root and the
\* working directory are the paths of the entries flagged RDIR and CDIR.
RECURSIVE procstat_files_loop(_, _)
procstat_files_loop(np, procfile) ==
    IF np = <<>> THEN procfile
    ELSE LET e == Head(np)
             p == to_str_or_empty(e.fs_path)
             f1 == IF "RDIR" \in e.fs_uflags
                   THEN [procfile EXCEPT !.root = p] ELSE procfile
             f2 == IF "CDIR" \in e.fs_uflags
                   THEN [f1 EXCEPT !.cwd = p] ELSE f1
         IN procstat_files_loop(Tail(np), f2)

procstat_files(files) ==
    procstat_files_loop(files, [root |-> EmptyStr, cwd |-> EmptyStr])

(***************************************************************************)
(* The kinfo_proc record procstat hands over for pid p in generation g     *)
(* with memory level m.  The fields of one generation differ from those of *)
(* another in every field the sampler reads; generation 2 has a command    *)
(* name that is not UTF-8, an unreadable path name and no environment.     *)
(***************************************************************************)
KInfo(p, g, m) ==
    [ ki_pid |-> p,
      ki_ppid |-> m,
      ki_size |-> 40 + 10 * g + m,
      ki_ssize |-> 20 + m,
      ki_rssize |-> 30 + 2 * m,
      ki_stat |-> 4 * g - 2,
      ki_comm |-> CString("comm", g, g # 2),
      ki_start |-> 100 * g,
      ru_inblock |-> 3 * g + m,
      ru_oublock |-> 5 * g + m,
      ki_pctcpu |-> 7 * g + m,
      envv |-> [ null |-> g = 2,
                 strs |-> IF g = 2 THEN <<>>
                          ELSE <<CString("HOME", g, TRUE), CString("BAD", g, FALSE),
                                 CString("PATH", g, TRUE)>> ],
      argv |-> [ null |-> FALSE,
                 strs |-> <<CString("arg0", g, TRUE), CString("arg1", g, TRUE)>> ],
      files |-> << [fs_uflags |-> {"RDIR"}, fs_path |-> CString("root", g, TRUE)],
                   [fs_uflags |-> {}, fs_path |-> CString("fd", g, TRUE)],
                   [fs_uflags |-> {"CDIR"}, fs_path |-> CString("cwd", g, TRUE)] >>,
      pathname_rc |-> IF g = 2 THEN 1 ELSE 0,
      pathname |-> CString("exe", g, TRUE) ]

KInfos == { KInfo(p, g, m) : p \in Pids, g \in Gens, m \in MemLevels }

\* The Process value refresh_processes builds from one kinfo_proc entry.
BuildProcess(k) ==
    [ pid |-> k.ki_pid,
      ppid |-> Some(k.ki_ppid),
      start |-> k.ki_start,
      comm |-> to_str_or_empty(k.ki_comm),
      size |-> k.ki_size,
      ssize |-> k.ki_ssize,
      rssize |-> k.ki_rssize,
      stat |-> ProcessStatus_from_i8(k.ki_stat),
      env |-> procstat_to_argv(k.envv),
      argv |-> procstat_to_argv(k.argv),
      files |-> procstat_files(k.files),
      exe |-> IF k.pathname_rc # 0 THEN EmptyStr ELSE to_str_or_empty(k.pathname),
      disk_usage |-> [ total_written_bytes |-> k.ru_oublock,
                       written_bytes |-> k.ru_oublock,
                       total_read_bytes |-> k.ru_inblock,
                       read_bytes |-> k.ru_inblock ],
      cpu |-> k.ki_pctcpu ]

\* A faulty variant of HashMap::insert: keeps the value already stored under the key.
insert_keep_existing(map, key, value) ==
    IF key \in DOMAIN map THEN map
    ELSE [k \in DOMAIN map \cup {key} |-> IF k = key THEN value ELSE map[k]]

\* HashMap::insert: stores value under key, replacing what was there.
insert(map, key, value) ==
    [k \in DOMAIN map \cup {key} |-> IF k = key THEN value ELSE map[k]]

\* The loop of refresh_processes over the pcount entries of kinfo.
RECURSIVE refresh_processes_loop(_, _)
refresh_processes_loop(map, entries) ==
    IF entries = <<>> THEN map
    ELSE refresh_processes_loop(
             insert(map, Head(entries).ki_pid, BuildProcess(Head(entries))),
             Tail(entries))

\* A faulty variant of the closure of refresh_process: rebuilds the whole record.
refresh_process_rebuild(proc, k) == BuildProcess(k)

\* The closure of refresh_process applied to the record found by get_mut.
refresh_process_update(proc, k) ==
    [proc EXCEPT !.ppid = Some(k.ki_ppid),
                 !.size = k.ki_size,
                 !.ssize = k.ki_ssize,
                 !.rssize = k.ki_rssize]

(***************************************************************************)
(* What procstat_getprocs(KERN_PROC_PROC) can return: one entry per live   *)
(* process, pids distinct (listed here by ascending pid).                  *)
(***************************************************************************)
RECURSIVE SnapshotOf(_)
SnapshotOf(f) ==
    IF DOMAIN f = {} THEN <<>>
    ELSE LET p == CHOOSE x \in DOMAIN f : \A y \in DOMAIN f : x <= y
         IN <<f[p]>> \o SnapshotOf([q \in DOMAIN f \ {p} |-> f[q]])

Snapshots ==
    { SnapshotOf(f) :
        f \in UNION { { h \in [S -> KInfos] : \A p \in S : h[p].ki_pid = p } :
                      S \in SUBSET Pids } }

SnapshotPids(s) == { s[i].ki_pid : i \in 1..Len(s) }

(***************************************************************************)
(* system.rs: the process table                                            *)
(***************************************************************************)
EmptyMap == [k \in {} |-> k]

InitProc ==
    /\ pids = EmptyMap
    /\ kinfo = <<>>
    /\ pid_arg = 0
    /\ ret = "unit"
    /\ pids_before = EmptyMap

refresh_processes ==
    /\ ~panicked
    /\ calls < MaxCalls
    /\ calls' = calls + 1
    /\ \E snapshot \in Snapshots :
         /\ pids' = refresh_processes_loop(pids, snapshot)
         /\ kinfo' = snapshot
    /\ pid_arg' = 0
    /\ ret' = "unit"
    /\ pids_before' = pids
    /\ op' = "refresh_processes"
    /\ UNCHANGED <<panicked, overflow_checks, netVars, cpuVars, memVars>>

\* What procstat_getprocs(KERN_PROC_PID, pid) can return: no entry, the
\* entry of pid, or (the process table of the kernel changing under the
\* call) the entry of another pid.
GetProcsPid(pid) ==
    {<<>>} \cup { <<KInfo(pid, g, m)>> : g \in Gens, m \in MemLevels }
           \cup { <<KInfo(q, 1, 0)>> : q \in Pids \ {pid} }

\* System::refresh_process.  The entry's ki_pid is compared with pid by
\* assert_eq!, which panics when they differ.
refresh_process ==
    /\ ~panicked
    /\ calls < MaxCalls
    /\ calls' = calls + 1
    /\ \E pid \in Pids : \E found \in GetProcsPid(pid) :
         /\ pid_arg' = pid
         /\ kinfo' = found
         /\ IF Len(found) = 1
            THEN IF found[1].ki_pid # pid
                 THEN /\ panicked' = TRUE
                      /\ ret' = "panic"
                      /\ pids' = pids
                 ELSE /\ panicked' = FALSE
                      /\ IF pid \in DOMAIN pids
                         THEN /\ pids' = [pids EXCEPT ![pid] =
                                            refresh_process_update(pids[pid], found[1])]
                              /\ ret' = "true"
                         ELSE /\ pids' = pids
                              /\ ret' = "false"
            ELSE /\ panicked' = FALSE
                 /\ pids' = pids
                 /\ ret' = "false"
    /\ pids_before' = pids
    /\ op' = "refresh_process"
    /\ UNCHANGED <<overflow_checks, netVars, cpuVars, memVars>>

NextProc == refresh_processes \/ refresh_process

(***************************************************************************)
(* network.rs                                                              *)
(***************************************************************************)
IfNames == {"em0", "lo0"}
\* Levels of an interface's cumulative counters (see IfData).
CounterLevels == {1, 2}

\* u64 arithmetic, scaled to CounterBits bits.
U64Modulus == 2 ^ CounterBits
wrapping_sub(a, b) == (a - b) % U64Modulus

\* A failed read: if_nametoindex, Ctl::new or value_as returned Err.
IfErr == [ok |-> FALSE]

\* The ifmibdata a successful sysctl net.link.generic.ifdata read returns
\* at counter level v: the six counters grow with v by different amounts.
IfData(v) ==
    [ ok |-> TRUE,
      ifi_mtu |-> 1500,
      ifi_ibytes |-> 3 * v,
      ifi_obytes |-> 2 * v + 1,
      ifi_ipackets |-> 2 * v,
      ifi_opackets |-> v + 1,
      ifi_ierrors |-> v,
      ifi_oerrors |-> v - 1 ]

\* The six (last-interval field, ifi field, total field) triples, in the
\* order refresh_counters assigns the last-interval fields.
CounterFields ==
    << <<"last_received_bytes", "ifi_ibytes", "received_bytes">>,
       <<"last_transmitted_bytes", "ifi_obytes", "transmitted_bytes">>,
       <<"last_received_packets", "ifi_ipackets", "received_packets">>,
       <<"last_transmitted_packets", "ifi_opackets", "transmitted_packets">>,
       <<"last_receive_errors", "ifi_ierrors", "receive_errors">>,
       <<"last_transmit_errors", "ifi_oerrors", "transmit_errors">> >>

LastFields == { CounterFields[i][1] : i \in 1..Len(CounterFields) }
TotalFields == { CounterFields[i][3] : i \in 1..Len(CounterFields) }

\* A faulty variant of NetworkData::default: the baseline of the totals is not zero.
NetworkData_default_nonzero ==
    [ ifaddrs |-> <<>>, mtu |-> 0,
      received_bytes |-> 1, transmitted_bytes |-> 1,
      received_packets |-> 1, transmitted_packets |-> 1,
      receive_errors |-> 1, transmit_errors |-> 0,
      last_received_bytes |-> 0, last_transmitted_bytes |-> 0,
      last_received_packets |-> 0, last_transmitted_packets |-> 0,
      last_receive_errors |-> 0, last_transmit_errors |-> 0 ]

\* NetworkData::default
NetworkData_default ==
    [ ifaddrs |-> <<>>, mtu |-> 0,
      received_bytes |-> 0, transmitted_bytes |-> 0,
      received_packets |-> 0, transmitted_packets |-> 0,
      receive_errors |-> 0, transmit_errors |-> 0,
      last_received_bytes |-> 0, last_transmitted_bytes |-> 0,
      last_received_packets |-> 0, last_transmitted_packets |-> 0,
      last_receive_errors |-> 0, last_transmit_errors |-> 0 ]

\* The six subtractions of refresh_counters, in order.  `data.x - self.y` on
\* u64 panics when overflow checks are compiled in and wraps otherwise; a
\* panic leaves the fields assigned so far and skips the rest.
RECURSIVE assign_last(_, _, _)
assign_last(self, data, todo) ==
    IF todo = <<>> THEN [nd |-> self, panic |-> FALSE]
    ELSE LET f == Head(todo) IN
         IF overflow_checks /\ data[f[2]] < self[f[3]]
         THEN [nd |-> self, panic |-> TRUE]
         ELSE assign_last([self EXCEPT ![f[1]] = wrapping_sub(data[f[2]], self[f[3]])],
                          data, Tail(todo))

\* A faulty variant of the body of refresh_counters: the last-interval
\* fields are assigned but the totals are not stored.
refresh_counters_body_keep_totals(self, data) ==
    assign_last([self EXCEPT !.mtu = data.ifi_mtu], data, CounterFields)

\* The body of refresh_counters once the sysctl read has succeeded.
refresh_counters_body(self, data) ==
    LET r == assign_last([self EXCEPT !.mtu = data.ifi_mtu], data, CounterFields) IN
    IF r.panic THEN r
    ELSE [ nd |-> [r.nd EXCEPT !.received_bytes = data.ifi_ibytes,
                               !.transmitted_bytes = data.ifi_obytes,
                               !.received_packets = data.ifi_ipackets,
                               !.transmitted_packets = data.ifi_opackets,
                               !.receive_errors = data.ifi_ierrors,
                               !.transmit_errors = data.ifi_oerrors],
           panic |-> FALSE ]

\* NetworkData::refresh_counters: tries the addresses of self.ifaddrs in
\* order and stops at the first whose interface can be read (if_nametoindex,
\* Ctl::new and value_as all succeed).
RECURSIVE refresh_counters_loop(_, _, _)
refresh_counters_loop(self, todo, sysctl) ==
    IF todo = <<>> THEN [nd |-> self, panic |-> FALSE]
    ELSE IF sysctl[Head(todo).interface_name].ok
         THEN refresh_counters_body(self, sysctl[Head(todo).interface_name])
         ELSE refresh_counters_loop(self, Tail(todo), sysctl)

refresh_counters(self, sysctl) == refresh_counters_loop(self, self.ifaddrs, sysctl)

\* The loop body of refresh_networks_list for one InterfaceAddress.  st.map
\* is self.interfaces, st.log the entries passed to insert so far.
observe(st, ifaddr, sysctl) ==
    IF ifaddr.address = None THEN st
    ELSE LET name == ifaddr.interface_name IN
         IF name \in DOMAIN st.map
         THEN LET r == refresh_counters(
                           [st.map[name] EXCEPT !.ifaddrs = Append(@, ifaddr)], sysctl)
              IN [st EXCEPT !.map = [st.map EXCEPT ![name] = r.nd],
                            !.panic = r.panic]
         ELSE LET r == refresh_counters(
                           [NetworkData_default EXCEPT !.ifaddrs = <<ifaddr>>], sysctl)
              IN IF r.panic THEN [st EXCEPT !.panic = TRUE]
                 ELSE [ map |-> insert(st.map, name, r.nd),
                        log |-> insert(st.log, name, r.nd),
                        panic |-> FALSE ]

\* The loop of refresh_networks_list over what getifaddrs returned; a panic
\* ends it.
RECURSIVE refresh_networks_list_loop(_, _, _)
refresh_networks_list_loop(st, todo, sysctl) ==
    IF todo = <<>> \/ st.panic THEN st
    ELSE refresh_networks_list_loop(observe(st, Head(todo), sysctl), Tail(todo), sysctl)

\* A faulty variant of refresh_networks_list: the map is rebuilt from the snapshot.
refresh_networks_list_rebuild(map, list, sysctl) ==
    refresh_networks_list_loop([map |-> EmptyMap, log |-> EmptyMap, panic |-> FALSE],
                               list, sysctl)

\* refresh_networks_list run on self.interfaces = map.
refresh_networks_list_run(map, list, sysctl) ==
    refresh_networks_list_loop([map |-> map, log |-> EmptyMap, panic |-> FALSE],
                               list, sysctl)

(***************************************************************************)
(* What getifaddrs can return for one interface: nothing, one record with  *)
(* an address family nix does not decode (address None), its link-level    *)
(* address, or its link-level and its inet address.                        *)
(***************************************************************************)
InterfaceAddress(name, address) == [interface_name |-> name, address |-> address]

AddrsOf(name) ==
    { <<>>,
      << InterfaceAddress(name, None) >>,
      << InterfaceAddress(name, Some("link")) >>,
      << InterfaceAddress(name, Some("link")), InterfaceAddress(name, Some("inet")) >> }

AddrLists == { a \o b : a \in AddrsOf("em0"), b \in AddrsOf("lo0") }

\* getifaddrs returns Err or Ok(list).
GetIfAddrsErr == [ok |-> FALSE, list |-> <<>>]
GetIfAddrs == {GetIfAddrsErr} \cup { [ok |-> TRUE, list |-> l] : l \in AddrLists }

\* The names getifaddrs lists with an address, and how often it lists one.
Observed(list) ==
    { list[i].interface_name : i \in { j \in 1..Len(list) : list[j].address # None } }
Observations(list, name) ==
    Cardinality({ i \in 1..Len(list) :
                    list[i].interface_name = name /\ list[i].address # None })

\* sysctl reads by interface name: IfErr or the ifmibdata.  The read of an
\* interface no address names is never made.
SysctlReads(list) ==
    { s \in [IfNames -> {IfErr} \cup { IfData(v) : v \in CounterLevels }] :
        \A n \in IfNames \ Observed(list) : ~s[n].ok }

InitNet ==
    /\ interfaces = EmptyMap
    /\ addrs = GetIfAddrsErr
    /\ ifdata = [n \in IfNames |-> IfErr]
    /\ inserted = EmptyMap
    /\ interfaces_before = EmptyMap
    /\ repeated = FALSE

\* Networks::refresh_networks_list (and Networks::refresh, which calls it).
refresh_networks_list ==
    /\ ~panicked
    /\ calls < MaxCalls
    /\ \E got \in GetIfAddrs :
         LET list == IF got.ok THEN got.list ELSE <<>> IN
         \E sysctl \in SysctlReads(list) :
           LET st == refresh_networks_list_run(interfaces, list, sysctl)
           IN /\ interfaces' = st.map
              /\ inserted' = st.log
              /\ panicked' = st.panic
              /\ addrs' = got
              /\ ifdata' = sysctl
              /\ repeated' = (op = "refresh_networks_list" /\ got = addrs /\ sysctl = ifdata)
    /\ interfaces_before' = interfaces
    /\ calls' = calls + 1
    /\ op' = "refresh_networks_list"
    /\ UNCHANGED <<overflow_checks, procVars, cpuVars, memVars>>

(***************************************************************************)
(* CPU usage: src/src/freebsd/processor.rs.                                *)
(* An f32 is the fraction num/den in lowest terms, den a power of two and  *)
(* the significand of num/den of at most F32Mantissa bits; every operation *)
(* rounds its exact result to the nearest such value, ties to even.        *)
(* den = 0 stands for the values a division by zero gives: num = 1 is      *)
(* +inf, num = -1 is -inf and num = 0 is NaN.  The operations are exact    *)
(* models of binary32 for the magnitudes that the tick counters of CpTicks *)
(* give (exponent overflow and subnormal values are left out).             *)
(***************************************************************************)
\* Bits of the significand of an f32 (IEEE 754 binary32).
F32Mantissa == 24

Abs(x) == IF x < 0 THEN 0 - x ELSE x
Sign(x) == IF x < 0 THEN 0 - 1 ELSE IF x > 0 THEN 1 ELSE 0

RECURSIVE Gcd(_, _)
Gcd(a, b) == IF b = 0 THEN a ELSE Gcd(b, a % b)

\* floor(log2(a / d)) for a > 0, d > 0
RECURSIVE FloorLog2(_, _)
FloorLog2(a, d) ==
    IF a >= 2 * d THEN FloorLog2(a, 2 * d) + 1
    ELSE IF a < d THEN FloorLog2(2 * a, d) - 1
    ELSE 0

\* the largest k with 2^k dividing d, for d > 0
RECURSIVE TwoPower(_)
TwoPower(d) == IF d % 2 = 0 THEN TwoPower(d \div 2) + 1 ELSE 0

\* a / b rounded to the nearest integer, ties to the even one (a >= 0, b > 0)
RoundHalfEven(a, b) ==
    LET q == a \div b
        r == a % b
    IN IF 2 * r > b \/ (2 * r = b /\ q % 2 = 1) THEN q + 1 ELSE q

\* n / d in lowest terms, for d > 0
Lowest(n, d) ==
    LET g == Gcd(Abs(n), d) IN [num |-> n \div g, den |-> d \div g]

\* The value sgn * m * 2^(-shift) of a significand m.
f32_pack(sgn, m, shift) ==
    IF shift > 0 THEN Lowest(sgn * m, 2 ^ shift)
    ELSE [num |-> sgn * m * 2 ^ (0 - shift), den |-> 1]

\* a / (c * 2^k) scaled by 2^shift and rounded to an integer significand.
f32_significand(a, c, k, shift) ==
    IF shift >= k THEN RoundHalfEven(a * 2 ^ (shift - k), c)
    ELSE RoundHalfEven(a, c * 2 ^ (k - shift))

\* n / d rounded to F32Mantissa significant bits, for n # 0, with k the
\* power of two in d.
f32_inexact(n, d, k) ==
    LET shift == (F32Mantissa - 1) - FloorLog2(Abs(n), d) IN
    f32_pack(Sign(n), f32_significand(Abs(n), d \div (2 ^ k), k, shift), shift)

\* The f32 nearest to n / d for integers n and d > 0: an integer below
\* 2^F32Mantissa is an f32, any other quotient is rounded.
f32_round(n, d) ==
    IF n % d = 0 /\ Abs(n \div d) < 2 ^ F32Mantissa THEN [num |-> n \div d, den |-> 1]
    ELSE f32_inexact(n, d, TwoPower(d))

\* The f32 n / d for integers n and d >= 0 (n as f32 is f32(n, 1)).
f32(n, d) ==
    IF d = 0 THEN [num |-> Sign(n), den |-> 0] ELSE f32_round(n, d)

f32_NaN == [num |-> 0, den |-> 0]

\* f32 + f32
f32_add(a, b) ==
    IF a.den = 0 /\ b.den = 0 THEN (IF a.num = b.num THEN a ELSE f32_NaN)
    ELSE IF a.den = 0 THEN a
    ELSE IF b.den = 0 THEN b
    ELSE IF a.num = 0 THEN b
    ELSE IF b.num = 0 THEN a
    ELSE LET d == IF a.den > b.den THEN a.den ELSE b.den IN
         f32_round(a.num * (d \div a.den) + b.num * (d \div b.den), d)

\* f32 * f32 for finite values
f32_mul(a, b) == f32_round(a.num * b.num, a.den * b.den)

\* f32 / f32 for a finite divisor: a division by zero gives an infinity,
\* or NaN for 0 / 0.
f32_div(a, b) ==
    IF a.den = 0 THEN (IF b.num < 0 THEN [a EXCEPT !.num = 0 - a.num] ELSE a)
    ELSE IF b.num = 0 THEN [num |-> Sign(a.num), den |-> 0]
    ELSE IF b.num > 0 THEN f32_round(a.num * b.den, a.den * b.num)
    ELSE f32_round((0 - a.num) * b.den, a.den * (0 - b.num))

\* f32 > 0.0
f32_positive(a) == a.num > 0

CpuTimeFields ==
    <<"user_time", "nice_time", "system_time", "interrupt_time", "idle_time">>
CpuPctFields ==
    <<"user_pct", "nice_pct", "system_pct", "interrupt_pct", "idle_pct">>

\* CpuTime::default
CpuTime_default ==
    [user_time |-> 0, nice_time |-> 0, system_time |-> 0,
     interrupt_time |-> 0, idle_time |-> 0]

\* CpuPct::default
CpuPct_default ==
    [user_pct |-> f32(0, 1), nice_pct |-> f32(0, 1), system_pct |-> f32(0, 1),
     interrupt_pct |-> f32(0, 1), idle_pct |-> f32(0, 1)]

\* impl Add for CpuPct
add(self, other) ==
    [user_pct |-> f32_add(self.user_pct, other.user_pct),
     nice_pct |-> f32_add(self.nice_pct, other.nice_pct),
     system_pct |-> f32_add(self.system_pct, other.system_pct),
     interrupt_pct |-> f32_add(self.interrupt_pct, other.interrupt_pct),
     idle_pct |-> f32_add(self.idle_pct, other.idle_pct)]

\* impl DivAssign<u8> for CpuPct (rhs as f32 divides each field)
div_assign(self, rhs) ==
    [user_pct |-> f32_div(self.user_pct, f32(rhs, 1)),
     nice_pct |-> f32_div(self.nice_pct, f32(rhs, 1)),
     system_pct |-> f32_div(self.system_pct, f32(rhs, 1)),
     interrupt_pct |-> f32_div(self.interrupt_pct, f32(rhs, 1)),
     idle_pct |-> f32_div(self.idle_pct, f32(rhs, 1))]

\* The five differences self - previous of pct_diff, each as f32.
diffs(self, previous) ==
    [user |-> f32(self.user_time - previous.user_time, 1),
     nice |-> f32(self.nice_time - previous.nice_time, 1),
     system |-> f32(self.system_time - previous.system_time, 1),
     interrupt |-> f32(self.interrupt_time - previous.interrupt_time, 1),
     idle |-> f32(self.idle_time - previous.idle_time, 1)]

\* A faulty variant of total_diff: the interrupt ticks are left out.
total_diff_no_interrupt(d) ==
    f32_add(f32_add(f32_add(d.user, d.nice), d.system), d.idle)

\* The total of pct_diff.
total_diff(d) ==
    f32_add(f32_add(f32_add(f32_add(d.user, d.nice), d.system), d.interrupt), d.idle)

\* A faulty variant of pct_of: the idle share is what the user share leaves.
pct_of_two_way(d, total) ==
    [user_pct |-> f32_div(f32_mul(f32(100, 1), d.user), total),
     nice_pct |-> f32_div(f32_mul(f32(100, 1), d.nice), total),
     system_pct |-> f32_div(f32_mul(f32(100, 1), d.system), total),
     interrupt_pct |-> f32_div(f32_mul(f32(100, 1), d.interrupt), total),
     idle_pct |-> f32_add(f32(100, 1),
                          f32_div(f32_mul(f32(0 - 100, 1), d.user), total))]

\* The five percentages of pct_diff: 100.0 * diff / total.
pct_of(d, total) ==
    [user_pct |-> f32_div(f32_mul(f32(100, 1), d.user), total),
     nice_pct |-> f32_div(f32_mul(f32(100, 1), d.nice), total),
     system_pct |-> f32_div(f32_mul(f32(100, 1), d.system), total),
     interrupt_pct |-> f32_div(f32_mul(f32(100, 1), d.interrupt), total),
     idle_pct |-> f32_div(f32_mul(f32(100, 1), d.idle), total)]

\* A faulty variant of pct_diff: a total that is not > 0 gives zero usage.
pct_diff_or_zero(self, previous) ==
    LET d == diffs(self, previous)
        total == total_diff(d)
    IN IF f32_positive(total) THEN Some(pct_of(d, total)) ELSE Some(CpuPct_default)

\* CpuTime::pct_diff: None unless the total of the differences is > 0.
pct_diff(self, previous) ==
    LET d == diffs(self, previous)
        total == total_diff(d)
    IN IF f32_positive(total) THEN Some(pct_of(d, total)) ELSE None

\* format!("cpu{}", cpu_id)
CpuName(cpu_id) == <<"cpu", cpu_id>>

\* Processor::update_cp_time
update_cp_time(self, cp_time) ==
    [self EXCEPT !.last_cp_time = self.cp_time, !.cp_time = cp_time]

\* A faulty variant of refresh_and_get_cpu_usages: without a difference the
\* usage is reset.
refresh_and_get_cpu_usages_reset(self) ==
    LET d == pct_diff(self.cp_time, self.last_cp_time) IN
    [self EXCEPT !.cpu_pct = IF d # None THEN d[1] ELSE CpuPct_default]

\* Processor::refresh_and_get_cpu_usages (the whole of Processor::refresh_all
\* but for the copy of the common data).
refresh_and_get_cpu_usages(self) ==
    LET d == pct_diff(self.cp_time, self.last_cp_time) IN
    IF d # None THEN [self EXCEPT !.cpu_pct = d[1]] ELSE self

\* Processor::new: zero samples, default usage, then its refresh_all.
Processor_new ==
    refresh_and_get_cpu_usages(
        [cpu_id |-> CpuName(0), cp_time |-> CpuTime_default,
         last_cp_time |-> CpuTime_default, cpu_pct |-> CpuPct_default])

\* Processor::default
Processor_default ==
    [cpu_id |-> EmptyStr, cp_time |-> CpuTime_default,
     last_cp_time |-> CpuTime_default, cpu_pct |-> CpuPct_default]

\* The Processor that ProcessorSet::new stores as global.
Processor_global == [Processor_default EXCEPT !.cpu_id = <<"global">>]

\* n as u8
as_u8(n) == n % (2 ^ CpuCountBits)

\* Vec::resize(new_len, value)
RECURSIVE resize(_, _, _)
resize(v, new_len, value) ==
    IF Len(v) >= new_len THEN SubSeq(v, 1, new_len)
    ELSE resize(Append(v, value), new_len, value)

\* for cpu_id in 0..hw_ncpu { self.cpus[cpu_id].set_cpu_id(format!(..)) }
RECURSIVE set_cpu_ids(_, _, _)
set_cpu_ids(v, cpu_id, hw_ncpu) ==
    IF cpu_id >= hw_ncpu THEN v
    ELSE set_cpu_ids([v EXCEPT ![cpu_id + 1].cpu_id = CpuName(cpu_id)],
                     cpu_id + 1, hw_ncpu)

\* ProcessorSet::refresh_num_cpus on self = [num_cpus, cpus, ..], with hw
\* the Option that Ctl::new("hw.ncpu").int_value() gives.
refresh_num_cpus_run(self, hw) ==
    IF hw = None THEN self
    ELSE IF as_u8(hw[1]) # as_u8(Len(self.cpus))
         THEN [self EXCEPT
                 !.num_cpus = as_u8(hw[1]),
                 !.cpus = set_cpu_ids(resize(self.cpus, hw[1], Processor_new),
                                      0, hw[1])]
         ELSE [self EXCEPT !.num_cpus = as_u8(hw[1])]

\* slice::chunks_exact(5) mapped to CpuTime: the groups of five values, in
\* order; a remainder of fewer than five values is dropped.
RECURSIVE chunks_exact(_)
chunks_exact(values) ==
    IF Len(values) < 5 THEN <<>>
    ELSE << [user_time |-> values[1], nice_time |-> values[2],
             system_time |-> values[3], interrupt_time |-> values[4],
             idle_time |-> values[5]] >>
         \o chunks_exact(SubSeq(values, 6, Len(values)))

\* The for_each of refresh_cp_times: chunk number cpu_id (from 0) updates
\* self.cpus[cpu_id]; indexing past the end of the vector panics.
RECURSIVE refresh_cp_times_loop(_, _, _)
refresh_cp_times_loop(v, chunks, cpu_id) ==
    IF chunks = <<>> THEN [cpus |-> v, panic |-> FALSE]
    ELSE IF cpu_id >= Len(v) THEN [cpus |-> v, panic |-> TRUE]
    ELSE refresh_cp_times_loop(
            [v EXCEPT ![cpu_id + 1] = update_cp_time(v[cpu_id + 1], Head(chunks))],
            Tail(chunks), cpu_id + 1)

\* ProcessorSet::refresh_cp_times with cp what sysctl kern.cp_times gave:
\* nothing is done unless it is a list of Long values.
refresh_cp_times(v, cp) ==
    IF cp.ok THEN refresh_cp_times_loop(v, chunks_exact(cp.list), 0)
    ELSE [cpus |-> v, panic |-> FALSE]

\* cpus.iter().fold(CpuPct::default(), |acc, e| acc + e.cpu_pct)
RECURSIVE fold_cpu_pct(_, _)
fold_cpu_pct(acc, v) ==
    IF v = <<>> THEN acc ELSE fold_cpu_pct(add(acc, Head(v).cpu_pct), Tail(v))

\* for cpu in &mut self.cpus { cpu.refresh_all(common) }
RECURSIVE refresh_each(_)
refresh_each(v) ==
    IF v = <<>> THEN <<>>
    ELSE <<refresh_and_get_cpu_usages(Head(v))>> \o refresh_each(Tail(v))

\* The end of ProcessorSet::refresh_all, with the set st = [num_cpus, cpus,
\* global] as refresh_num_cpus and refresh_cp_times left it: every core
\* recomputes its usage and the global usage is their sum divided by
\* num_cpus.
refresh_usages(st) ==
    [num_cpus |-> st.num_cpus, cpus |-> st.cpus,
     global |-> [st.global EXCEPT
                   !.cpu_pct = div_assign(fold_cpu_pct(CpuPct_default, st.cpus),
                                          st.num_cpus)],
     panic |-> FALSE]

\* ProcessorSet::refresh_all on self = [num_cpus, cpus, global] (the vendor,
\* brand and frequency it also reads are left out).
refresh_all(self, in) ==
    LET a == refresh_num_cpus_run(self, in.hw_ncpu)
        b == refresh_cp_times(a.cpus, in.cp_times)
    IN IF b.panic
       THEN [num_cpus |-> a.num_cpus, cpus |-> b.cpus, global |-> self.global,
             panic |-> TRUE]
       ELSE refresh_usages([num_cpus |-> a.num_cpus, cpus |-> refresh_each(b.cpus),
                            global |-> self.global])

\* ProcessorSet::new: an empty set, one refresh_all, then a fresh global.
ProcessorSet_empty ==
    [num_cpus |-> 0, cpus |-> <<>>, global |-> Processor_default]

ProcessorSet_new(in) ==
    [refresh_all(ProcessorSet_empty, in) EXCEPT !.global = Processor_global]

\* What the OS returns ---------------------------------------------------
\* The five tick counters of core i (1 or 2) at instant t, in the order of
\* kern.cp_times (user, nice, system, interrupt, idle).  From instant 1 to
\* instant 2 the user counter of core 1 goes down while its total goes up;
\* the counters of core 2 only go up.
CpTicks(t, i) ==
    IF i = 1 THEN (IF t = 1 THEN <<1, 0, 0, 0, 1>> ELSE <<0, 0, 1, 0, 4>>)
    ELSE (IF t = 1 THEN <<1, 1, 0, 0, 2>> ELSE <<3, 2, 2, 1, 2>>)

RECURSIVE CpValues(_, _, _)
CpValues(t, i, m) ==
    IF i > m THEN <<>> ELSE CpTicks(t, i) \o CpValues(t, i + 1, m)

CpTimesErr == [ok |-> FALSE, list |-> <<>>]
CpTimesReads ==
    {CpTimesErr} \cup
    { [ok |-> TRUE, list |-> CpValues(t, 1, m)] : t \in TickLevels, m \in ChunkCounts }

\* hw.ncpu: not readable, or a count; the largest count does not fit the
\* width of num_cpus.
NcpuValues == {1, 2, 2 ^ CpuCountBits + 1}
HwNcpuReads == {None} \cup { Some(n) : n \in NcpuValues }

CpuReads == [hw_ncpu : HwNcpuReads, cp_times : CpTimesReads]
CpuUnread == [hw_ncpu |-> None, cp_times |-> CpTimesErr]

\* The ProcessorSet of a System whose construction read in.
InitCpu(in) ==
    LET st == ProcessorSet_new(in) IN
    /\ ~st.panic
    /\ num_cpus = st.num_cpus
    /\ cpus = st.cpus
    /\ global = st.global
    /\ cpu_in = in
    /\ cpu_before = [num_cpus |-> 0, cpus |-> <<>>, global |-> Processor_default,
                     op |-> "none", cpu_in |-> CpuUnread]

\* The ProcessorSet as the last operation found it.
CpuNow ==
    [num_cpus |-> num_cpus, cpus |-> cpus, global |-> global]

\* System::refresh_cpu: ProcessorSet::refresh_all.
refresh_cpu ==
    /\ ~panicked
    /\ calls < MaxCalls
    /\ \E in \in CpuReads : \E st \in {refresh_all(CpuNow, in)} :
            /\ num_cpus' = st.num_cpus
            /\ cpus' = st.cpus
            /\ global' = st.global
            /\ panicked' = st.panic
            /\ cpu_in' = in
    /\ cpu_before' = [num_cpus |-> num_cpus, cpus |-> cpus, global |-> global,
                      op |-> op, cpu_in |-> cpu_in]
    /\ calls' = calls + 1
    /\ op' = "refresh_cpu"
    /\ UNCHANGED <<overflow_checks, procVars, netVars, memVars>>

\* ProcessorSet::refresh_num_cpus, called on its own.
refresh_num_cpus ==
    /\ ~panicked
    /\ calls < MaxCalls
    /\ \E hw \in HwNcpuReads : \E st \in {refresh_num_cpus_run(CpuNow, hw)} :
            /\ num_cpus' = st.num_cpus
            /\ cpus' = st.cpus
            /\ cpu_in' = [hw_ncpu |-> hw, cp_times |-> CpTimesErr]
    /\ cpu_before' = [num_cpus |-> num_cpus, cpus |-> cpus, global |-> global,
                      op |-> op, cpu_in |-> cpu_in]
    /\ calls' = calls + 1
    /\ op' = "refresh_num_cpus"
    /\ UNCHANGED <<global, panicked, overflow_checks, procVars, netVars, memVars>>

NextCpu == refresh_cpu \/ refresh_num_cpus

(***************************************************************************)
(* system.rs: memory and swap.  The figures are kept in kilobytes; the     *)
(* sysctl reads are the environment.                                       *)
(***************************************************************************)
SW_MULTIPLIER == 4
KBITS_SHIFT == 10
DEFAULT_PAGESIZE == 4096

\* u64 arithmetic, scaled to MemBits bits.
MemModulus == 2 ^ MemBits
\* `x as u64` of a signed value: the value modulo the width.
as_u64(x) == x % MemModulus
\* x >> k
shr(x, k) == x \div (2 ^ k)

\* A sysctl read: Ctl::new or value() returned Err, or a CtlValue of a type.
CtlErr == [ok |-> FALSE]
CtlValue(type, val) == [ok |-> TRUE, type |-> type, val |-> val]
\* `if let Ok(CtlValue::T(x)) = read`
is_value(read, type) == read.ok /\ read.type = type

\* An arithmetic step on u64 whose exact result is x: it panics when x is
\* out of range and overflow checks are compiled in, and wraps otherwise.
u64_checked(x) ==
    [val |-> x % MemModulus, panic |-> overflow_checks /\ (x < 0 \/ x >= MemModulus)]

\* hw.pagesize read as Int, or DEFAULT_PAGESIZE.
pagesize_of(read) ==
    IF is_value(read, "Int") THEN as_u64(read.val) ELSE DEFAULT_PAGESIZE

\* The fold over the swap devices 0 .. swap_device_count - 1: a device whose
\* vm.swap_info read fails is skipped.  The sum is an i32 in the source; the
\* page counts of xswdev_of stay far below its range.
RECURSIVE swap_used_fold(_, _, _)
swap_used_fold(acc, swap_info, swap_device_count) ==
    IF swap_device_count = 0 THEN acc
    ELSE LET swap_dev == Head(swap_info) IN
         swap_used_fold(IF swap_dev.ok THEN acc + swap_dev.xsw_used * SW_MULTIPLIER ELSE acc,
                        Tail(swap_info), swap_device_count - 1)

\* swap_used: None unless vm.nswapdev reads as a positive Int.
swap_used_of(in) ==
    IF is_value(in.nswapdev, "Int") /\ in.nswapdev.val > 0
    THEN Some(swap_used_fold(0, in.swap_info, in.nswapdev.val))
    ELSE None

\* hw.physmem read as Ulong and shifted to kilobytes, or 0.
mem_total_of(in) ==
    IF is_value(in.physmem, "Ulong") THEN shr(in.physmem.val, KBITS_SHIFT) ELSE 0

\* vm.stats.vm.v_free_count read as U32, times the page size, shifted to
\* kilobytes, or 0.
mem_free_of(in) ==
    IF is_value(in.free_count, "U32")
    THEN LET product == u64_checked(in.free_count.val * pagesize_of(in.pagesize)) IN
         [val |-> shr(product.val, KBITS_SHIFT), panic |-> product.panic]
    ELSE [val |-> 0, panic |-> FALSE]

\* vm.swap_total read as U64 and shifted to kilobytes, or 0.
swap_total_of(in) ==
    IF is_value(in.swap_total, "U64") THEN shr(in.swap_total.val, KBITS_SHIFT) ELSE 0

\* System::refresh_memory run on the fields self with the reads in.  A panic
\* leaves the fields assigned before it.
refresh_memory_run(self, in) ==
    LET total == mem_total_of(in)
        free == mem_free_of(in)
        stotal == swap_total_of(in)
        swap_used == swap_used_of(in)
    IN  IF free.panic
        THEN [self EXCEPT !.mem_total = total, !.panic = TRUE]
        ELSE IF swap_used = None
        THEN [self EXCEPT !.mem_total = total, !.mem_free = free.val, !.swap_total = stotal]
        ELSE LET sfree == u64_checked(stotal - as_u64(swap_used[1])) IN
             IF sfree.panic
             THEN [self EXCEPT !.mem_total = total, !.mem_free = free.val,
                               !.swap_total = stotal, !.panic = TRUE]
             ELSE [self EXCEPT !.mem_total = total, !.mem_free = free.val,
                               !.swap_total = stotal, !.swap_free = sfree.val]

\* The memory fields of System::default.
Memory_default ==
    [mem_free |-> 0, mem_total |-> 0, swap_total |-> 0, swap_free |-> 0, panic |-> FALSE]

\* System::get_used_memory and System::get_used_swap: total - free on u64.
get_used(total, free) == u64_checked(total - free)

(***************************************************************************)
(* What the sysctl reads of one refresh_memory return.  hw.physmem fails   *)
(* or is a byte count; hw.pagesize fails (the default is used) or is a     *)
(* page size; vm.stats.vm.v_free_count has an unexpected type or is a page *)
(* count; vm.swap_total fails or is a byte count; vm.nswapdev fails or is  *)
(* a device count, and vm.swap_info fails for a device or gives its        *)
(* xswdev.                                                                 *)
(***************************************************************************)
PhysmemReads == {CtlErr, CtlValue("Ulong", 8192)}
PageReads ==
    { [pagesize |-> CtlErr, free_count |-> CtlValue("Int", 1)],
      [pagesize |-> CtlErr, free_count |-> CtlValue("U32", 1)],
      [pagesize |-> CtlValue("Int", 8192), free_count |-> CtlValue("U32", 2)] }
SwapTotalReads == {CtlErr, CtlValue("U64", 0), CtlValue("U64", 4096)}
xswdev_of(pages) == [ok |-> TRUE, xsw_used |-> pages]
SwapReads ==
    { [nswapdev |-> CtlErr, swap_info |-> <<>>],
      [nswapdev |-> CtlValue("Int", 0), swap_info |-> <<>>],
      [nswapdev |-> CtlValue("Int", 1), swap_info |-> <<xswdev_of(0)>>],
      [nswapdev |-> CtlValue("Int", 1), swap_info |-> <<xswdev_of(1)>>],
      [nswapdev |-> CtlValue("Int", 2), swap_info |-> <<CtlErr, xswdev_of(2)>>] }

MemReads ==
    { [physmem |-> p, pagesize |-> f.pagesize, free_count |-> f.free_count,
       swap_total |-> t, nswapdev |-> s.nswapdev, swap_info |-> s.swap_info] :
        p \in PhysmemReads, f \in PageReads, t \in SwapTotalReads, s \in SwapReads }
MemUnread ==
    [physmem |-> CtlErr, pagesize |-> CtlErr, free_count |-> CtlErr,
     swap_total |-> CtlErr, nswapdev |-> CtlErr, swap_info |-> <<>>]

\* The memory fields the last operation found.
MemNow ==
    [mem_free |-> mem_free, mem_total |-> mem_total, swap_total |-> swap_total,
     swap_free |-> swap_free, panic |-> FALSE]

\* The memory fields of a System whose construction read in
\* (new_with_specifics, through refresh_system), or of System::default when
\* the construction is left out.
InitMem(st, in) ==
    /\ ~st.panic
    /\ mem_free = st.mem_free
    /\ mem_total = st.mem_total
    /\ swap_total = st.swap_total
    /\ swap_free = st.swap_free
    /\ used = 0
    /\ mem_in = in
    /\ mem_before = Memory_default

\* System::refresh_memory.
refresh_memory ==
    /\ ~panicked
    /\ calls < MaxCalls
    /\ \E in \in MemReads : \E st \in {refresh_memory_run(MemNow, in)} :
            /\ mem_free' = st.mem_free
            /\ mem_total' = st.mem_total
            /\ swap_total' = st.swap_total
            /\ swap_free' = st.swap_free
            /\ panicked' = st.panic
            /\ mem_in' = in
    /\ mem_before' = MemNow
    /\ calls' = calls + 1
    /\ op' = "refresh_memory"
    /\ UNCHANGED <<used, overflow_checks, procVars, netVars, cpuVars>>

\* System::get_used_memory.
get_used_memory ==
    /\ ~panicked
    /\ calls < MaxCalls
    /\ \E r \in {get_used(mem_total, mem_free)} :
            /\ used' = r.val
            /\ panicked' = r.panic
    /\ mem_before' = MemNow
    /\ calls' = calls + 1
    /\ op' = "get_used_memory"
    /\ UNCHANGED <<mem_free, mem_total, swap_total, swap_free, mem_in,
                   overflow_checks, procVars, netVars, cpuVars>>

\* System::get_used_swap.
get_used_swap ==
    /\ ~panicked
    /\ calls < MaxCalls
    /\ \E r \in {get_used(swap_total, swap_free)} :
            /\ used' = r.val
            /\ panicked' = r.panic
    /\ mem_before' = MemNow
    /\ calls' = calls + 1
    /\ op' = "get_used_swap"
    /\ UNCHANGED <<mem_free, mem_total, swap_total, swap_free, mem_in,
                   overflow_checks, procVars, netVars, cpuVars>>

NextMem == refresh_memory \/ get_used_memory \/ get_used_swap

(***************************************************************************)
(* Specifications: one per subsystem, the other subsystem at rest (every   *)
(* action leaves the variables of the other subsystem unchanged).          *)
(***************************************************************************)
Init ==
    /\ InitProc
    /\ InitNet
    /\ InitCpu(CpuUnread)
    /\ InitMem(Memory_default, MemUnread)
    /\ overflow_checks \in BOOLEAN
    /\ calls = 0
    /\ op = "new"
    /\ panicked = FALSE

\* A System whose construction read any of the CPU counts and tick counters.
InitCpuSpec ==
    /\ InitProc
    /\ InitNet
    /\ \E in \in CpuReads : InitCpu(in)
    /\ InitMem(Memory_default, MemUnread)
    /\ overflow_checks \in BOOLEAN
    /\ calls = 0
    /\ op = "new"
    /\ panicked = FALSE

\* A System whose construction read any of the memory and swap figures.
InitMemSpec ==
    /\ InitProc
    /\ InitNet
    /\ InitCpu(CpuUnread)
    /\ overflow_checks \in BOOLEAN
    /\ \E in \in MemReads : InitMem(refresh_memory_run(Memory_default, in), in)
    /\ calls = 0
    /\ op = "new"
    /\ panicked = FALSE

NextNet == refresh_networks_list

SpecProc == Init /\ [][NextProc]_vars
SpecNet == Init /\ [][NextNet]_vars
SpecCpu == InitCpuSpec /\ [][NextCpu]_vars
SpecMem == InitMemSpec /\ [][NextMem]_vars

(***************************************************************************)
(* Process table: C1 .. C5                                                 *)
(***************************************************************************)
\* C1: after a full process refresh the set of pids in the table is exactly
\* the set of pids of the snapshot just read.
C1_TableEqualsSnapshot ==
    op = "refresh_processes" => DOMAIN pids = SnapshotPids(kinfo)

\* The last operation was a refresh_process whose entry names another pid.
MismatchedEntry ==
    op = "refresh_process" /\ Len(kinfo) = 1 /\ kinfo[1].ki_pid # pid_arg

\* C2: a single-process refresh whose entry carries another pid than the one
\* asked for returns false, changes no record and does not panic.
C2_MismatchIsNoOp ==
    MismatchedEntry => ret = "false" /\ pids = pids_before /\ ~panicked

\* C3: a single-process refresh never inserts: for a pid that is not a key
\* of the table, or with no entry from the source, it returns false and
\* leaves the table as it was; it returns true only for a pid already there.
C3_NeverInserts ==
    op = "refresh_process" =>
        /\ (pid_arg \notin DOMAIN pids_before \/ Len(kinfo) = 0)
               => ret = "false" /\ pids = pids_before
        /\ ret = "true" => pid_arg \in DOMAIN pids_before

\* The fields of a Process other than ppid, size, ssize and rssize.
FrameFields ==
    {"pid", "start", "comm", "argv", "env", "exe", "files", "stat", "cpu", "disk_usage"}

\* C4: a successful single-process refresh of pid p leaves every field of
\* record p other than ppid, size, ssize and rssize, the key set and every
\* other record unchanged.
C4_RefreshOneFrame ==
    (op = "refresh_process" /\ ret = "true") =>
        /\ DOMAIN pids = DOMAIN pids_before
        /\ \A q \in DOMAIN pids \ {pid_arg} : pids[q] = pids_before[q]
        /\ \A f \in FrameFields : pids[pid_arg][f] = pids_before[pid_arg][f]

\* C4's case: a successful refresh of one of two records changed its sizes,
\* from an entry that differs from the record in the other fields too.
C4_Witness ==
    /\ op = "refresh_process" /\ ret = "true"
    /\ Cardinality(DOMAIN pids) = 2
    /\ pids[pid_arg].size # pids_before[pid_arg].size
    /\ pids[pid_arg].rssize # pids_before[pid_arg].rssize
    /\ kinfo[1].ki_start # pids[pid_arg].start
    /\ kinfo[1].ki_pctcpu # pids[pid_arg].cpu

\* C5: after a full refresh the record stored for every pid of the snapshot
\* is the one built from its snapshot entry, in every field, also for a pid
\* that was in the table for an earlier process; and in every state a record
\* is stored under its own pid.
C5_StoredEqualsSnapshot ==
    /\ \A p \in DOMAIN pids : pids[p].pid = p
    /\ op = "refresh_processes" =>
         \A i \in 1..Len(kinfo) :
            LET k == kinfo[i]
                r == pids[k.ki_pid]
            IN /\ r = BuildProcess(k)
               /\ r.start = k.ki_start
               /\ r.cpu = k.ki_pctcpu
               /\ r.comm = (IF k.ki_comm.utf8 THEN k.ki_comm.bytes ELSE EmptyStr)
               /\ Len(r.argv) = Len(k.argv.strs)

\* C5's case: a full refresh found a pid of the table reused by a process
\* of another generation.
C5_Witness ==
    /\ op = "refresh_processes"
    /\ \E p \in DOMAIN pids_before \cap SnapshotPids(kinfo) :
          /\ pids_before[p].start # pids[p].start
          /\ pids_before[p].comm # pids[p].comm

(***************************************************************************)
(* Interface registry: C6 .. C10                                           *)
(***************************************************************************)
\* The list of the last getifaddrs call.
AddrList == IF addrs.ok THEN addrs.list ELSE <<>>

\* The last operation was a network refresh that ran to its end.
RefreshDone == op = "refresh_networks_list" /\ ~panicked

\* Field by field, the counters read for n are not below the stored totals.
NotBelow(n) ==
    \A i \in 1..Len(CounterFields) :
        ifdata[n][CounterFields[i][2]] >= interfaces_before[n][CounterFields[i][3]]

\* C6: an interface of the registry with totals c, observed in a refresh
\* with counters c' >= c, has after the refresh last-interval fields c' - c
\* and totals c'.
C6_DeltaAfterRefresh ==
    RefreshDone =>
        \A n \in DOMAIN interfaces_before \cap Observed(AddrList) :
            (ifdata[n].ok /\ NotBelow(n)) =>
                \A i \in 1..Len(CounterFields) :
                    LET f == CounterFields[i] IN
                    /\ interfaces[n][f[1]] = ifdata[n][f[2]] - interfaces_before[n][f[3]]
                    /\ interfaces[n][f[3]] = ifdata[n][f[2]]

\* C7: a counter read below the stored total gives a clamped last-interval
\* value: the refresh does not panic and no last-interval value is a wrapped
\* one (a difference c' - c never exceeds the total c').
C7_DeltaClamped ==
    op = "refresh_networks_list" =>
        /\ ~panicked
        /\ \A n \in DOMAIN interfaces : \A i \in 1..Len(CounterFields) :
              /\ interfaces[n][CounterFields[i][1]] >= 0
              /\ interfaces[n][CounterFields[i][1]] <= interfaces[n][CounterFields[i][3]]

\* C8: the registry never removes an entry, and an interface that the
\* snapshot does not list keeps its entry unchanged.
C8_NeverRemoves ==
    op = "refresh_networks_list" =>
        /\ DOMAIN interfaces_before \subseteq DOMAIN interfaces
        /\ \A n \in DOMAIN interfaces_before \ Observed(AddrList) :
              interfaces[n] = interfaces_before[n]

\* C8's case: an interface with counters was not listed by the refresh.
C8_Witness ==
    /\ op = "refresh_networks_list"
    /\ \E n \in DOMAIN interfaces_before \ Observed(AddrList) :
          /\ interfaces_before[n].received_bytes > 0
          /\ interfaces_before[n].last_received_bytes > 0
    /\ Observed(AddrList) # {}

\* The list with only the first addressed record of every interface.
RECURSIVE FirstOnlyFrom(_, _)
FirstOnlyFrom(list, seen) ==
    IF list = <<>> THEN <<>>
    ELSE LET a == Head(list) IN
         IF a.address = None THEN <<a>> \o FirstOnlyFrom(Tail(list), seen)
         ELSE IF a.interface_name \in seen THEN FirstOnlyFrom(Tail(list), seen)
         ELSE <<a>> \o FirstOnlyFrom(Tail(list), seen \cup {a.interface_name})

FirstOnly(list) == FirstOnlyFrom(list, {})

\* C9: an interface listed k >= 2 times by a refresh has after it the totals
\* and last-interval values it has when listed once.
C9_RepeatedObservation ==
    RefreshDone =>
        \A n \in IfNames :
            Observations(AddrList, n) >= 2 =>
                LET once == refresh_networks_list_run(
                                interfaces_before, FirstOnly(AddrList), ifdata).map[n]
                IN \A f \in LastFields \cup TotalFields : interfaces[n][f] = once[f]

\* C10: an interface the registry does not hold is inserted with the counters
\* read as totals and as last-interval values (the baseline is zero); an
\* interface the registry holds is not inserted again: its entry is updated
\* (each addressed record of the snapshot is added to its addresses).
C10_InsertFromZero ==
    op = "refresh_networks_list" =>
        /\ DOMAIN inserted \cap DOMAIN interfaces_before = {}
        /\ DOMAIN inserted \subseteq Observed(AddrList)
        /\ ~panicked => Observed(AddrList) \ DOMAIN interfaces_before \subseteq DOMAIN inserted
        /\ \A n \in DOMAIN inserted :
              ifdata[n].ok =>
                 \A i \in 1..Len(CounterFields) :
                    LET f == CounterFields[i] IN
                    /\ inserted[n][f[3]] = ifdata[n][f[2]]
                    /\ inserted[n][f[1]] = ifdata[n][f[2]] - 0
        /\ ~panicked =>
              \A n \in DOMAIN interfaces_before \cap Observed(AddrList) :
                 /\ Len(interfaces[n].ifaddrs) =
                       Len(interfaces_before[n].ifaddrs) + Observations(AddrList, n)
                 /\ SubSeq(interfaces[n].ifaddrs, 1, Len(interfaces_before[n].ifaddrs))
                       = interfaces_before[n].ifaddrs

\* C10's case: one refresh inserted an interface with counters and updated
\* another that the registry held.
C10_Witness ==
    /\ RefreshDone
    /\ \E n \in DOMAIN inserted :
          /\ ifdata[n].ok
          /\ inserted[n].last_received_bytes > 0
    /\ DOMAIN interfaces_before \cap Observed(AddrList) # {}

(***************************************************************************)
(* Network registry: C11                                                   *)
(***************************************************************************)
\* The last refresh ran to its end and read the OS state (address list and
\* counters) that the refresh before it read.
SecondOfTwo == RefreshDone /\ repeated

\* The interface n was read by the last refresh.
ReadNow(n) == n \in Observed(AddrList) /\ ifdata[n].ok

\* C11 as stated: of two refreshes in a row over unchanged OS counters, the
\* second leaves the totals and the last-interval values of every interface
\* as they were after the first.
C11_SameMetrics ==
    SecondOfTwo =>
        /\ DOMAIN interfaces = DOMAIN interfaces_before
        /\ \A n \in DOMAIN interfaces : \A f \in TotalFields \cup LastFields :
              interfaces[n][f] = interfaces_before[n][f]

\* C11, amended: of two refreshes in a row over unchanged OS counters, the
\* second leaves the totals as they were after the first; the last-interval
\* values of an interface it reads are zero, those of an interface it does
\* not read are as they were after the first.
C11_SameTotalsZeroDeltas ==
    SecondOfTwo =>
        /\ DOMAIN interfaces = DOMAIN interfaces_before
        /\ \A n \in DOMAIN interfaces :
              /\ \A f \in TotalFields : interfaces[n][f] = interfaces_before[n][f]
              /\ \A f \in LastFields :
                    interfaces[n][f] = IF ReadNow(n) THEN 0 ELSE interfaces_before[n][f]

\* C11's case: the first of the two refreshes left a non-zero last-interval
\* value for an interface that the second one read again.
C11_Witness ==
    /\ SecondOfTwo
    /\ \E n \in DOMAIN interfaces_before :
          /\ ReadNow(n)
          /\ interfaces_before[n].last_received_bytes > 0
          /\ interfaces[n].received_bytes > 0

(***************************************************************************)
(* CPU usage: C12 .. C20                                                   *)
(***************************************************************************)
\* The difference current - previous of counter k of a core, and the sum of
\* the five differences.
Delta(c, k) == c.cp_time[CpuTimeFields[k]] - c.last_cp_time[CpuTimeFields[k]]
TotalDelta(c) == Delta(c, 1) + Delta(c, 2) + Delta(c, 3) + Delta(c, 4) + Delta(c, 5)

\* The last operation was a refresh_cpu that ran to its end.
CpuRefreshDone == op = "refresh_cpu" /\ ~panicked

\* The cores that the last operation found, by index.
WasThere(i) == i \in 1..Len(cpu_before.cpus)

\* The sum of the five percentages of a usage.
PctSum(p) ==
    f32_add(f32_add(f32_add(f32_add(p.user_pct, p.nice_pct), p.system_pct),
                    p.interrupt_pct), p.idle_pct)

\* |a - c| <= 1 / k for a finite f32 a and integers c, k
f32_near(a, c, k) ==
    a.den > 0 /\ Abs(a.num - c * a.den) <= a.den \div k

\* No counter of the core is lower than in its previous sample.
NoRollback(c) == \A k \in 1..5 : Delta(c, k) >= 0

C13_BucketShare ==
    ~panicked =>
        \A i \in 1..Len(cpus) :
            TotalDelta(cpus[i]) > 0 =>
                \A k \in 1..5 :
                    cpus[i].cpu_pct[CpuPctFields[k]]
                        = f32(100 * Delta(cpus[i], k), TotalDelta(cpus[i]))

\* C13's case: the previous sample is all zero, the current one has equal
\* user and idle ticks and no others: user and idle are 50, the rest 0.
C13_Witness ==
    /\ CpuRefreshDone
    /\ \E i \in 1..Len(cpus) :
          /\ cpus[i].last_cp_time = CpuTime_default
          /\ cpus[i].cp_time = [CpuTime_default EXCEPT !.user_time = 1, !.idle_time = 1]
          /\ cpus[i].cpu_pct = [CpuPct_default EXCEPT !.user_pct = [num |-> 50, den |-> 1],
                                                      !.idle_pct = [num |-> 50, den |-> 1]]

\* C14: a core whose total difference is <= 0 at a refresh keeps the usage
\* it had before the refresh.
C14_NoDeltaKeepsUsage ==
    CpuRefreshDone =>
        \A i \in 1..Len(cpus) :
            TotalDelta(cpus[i]) <= 0 =>
                cpus[i].cpu_pct = IF WasThere(i) THEN cpu_before.cpus[i].cpu_pct
                                  ELSE CpuPct_default

\* C14's case: a core with a non-zero usage was given the sample it had
\* already, and another a sample with a lower total.
C14_Witness ==
    /\ CpuRefreshDone
    /\ \E i \in 1..Len(cpus) :
          /\ WasThere(i)
          /\ cpus[i].cp_time = cpus[i].last_cp_time
          /\ cpus[i].cp_time # CpuTime_default
          /\ cpus[i].cpu_pct # CpuPct_default
    /\ \E i \in 1..Len(cpus) : WasThere(i) /\ TotalDelta(cpus[i]) < 0

\* The last two operations were refresh_cpu calls that read the same CPU
\* count and the same tick counters.
SecondCpuRefresh ==
    /\ CpuRefreshDone
    /\ cpu_before.op = "refresh_cpu"
    /\ cpu_in = cpu_before.cpu_in

\* The usages of the cores, in order.
Usages(v) == [i \in 1..Len(v) |-> v[i].cpu_pct]

\* C15: of two refresh_cpu calls in a row over unchanged tick counters and
\* CPU count, the second leaves the per-core usages and the global usage of
\* the first.
C15_RefreshCpuIdempotent ==
    SecondCpuRefresh =>
        /\ Usages(cpus) = Usages(cpu_before.cpus)
        /\ global.cpu_pct = cpu_before.global.cpu_pct

\* C15's case: both calls read tick counters, and the first left a usage
\* that is not zero.
C15_Witness ==
    /\ SecondCpuRefresh
    /\ cpu_in.cp_times.ok
    /\ cpu_in.hw_ncpu # None
    /\ \E i \in 1..Len(cpus) : cpus[i].cpu_pct # CpuPct_default
    /\ global.cpu_pct # CpuPct_default

\* The f32 sum of field f over the usages of the cores, in index order.
RECURSIVE SumOver(_, _)
SumOver(v, f) ==
    IF v = <<>> THEN [num |-> 0, den |-> 1]
    ELSE f32_add(SumOver(SubSeq(v, 1, Len(v) - 1), f), v[Len(v)].cpu_pct[f])

\* C16: after a refresh_cpu that leaves a non-zero number of per-core
\* entries, each component of the global usage is the sum of the component
\* over the per-core usages divided by the number of per-core entries.
C16_GlobalIsAverage ==
    (CpuRefreshDone /\ Len(cpus) > 0) =>
        \A k \in 1..5 :
            global.cpu_pct[CpuPctFields[k]]
                = f32_div(SumOver(cpus, CpuPctFields[k]), f32(Len(cpus), 1))

\* C17: a refresh_cpu that ends with a CPU count of zero leaves the global
\* usage at its default, all zero.
C17_ZeroCountKeepsDefault ==
    (CpuRefreshDone /\ num_cpus = 0) => global.cpu_pct = CpuPct_default

\* a value that is neither NaN nor infinite and lies in [lo, hi]
f32_within(a, lo, hi) ==
    a.den > 0 /\ lo * a.den <= a.num /\ a.num <= hi * a.den

\* Every percentage of the usage p lies in [0, 100].
InRange(p) == \A k \in 1..5 : f32_within(p[CpuPctFields[k]], 0, 100)

\* C18: after any sequence of refreshes every per-core and global
\* percentage lies in [0, 100] (none is negative, over 100, infinite or NaN).
C18_UsageInRange ==
    ~panicked =>
        /\ \A i \in 1..Len(cpus) : InRange(cpus[i].cpu_pct)
        /\ InRange(global.cpu_pct)

\* Core i was zero-filled when the last refresh_cpu started (or was created
\* by it) and that refresh gave it a sample.
FirstUpdate(i) ==
    /\ CpuRefreshDone
    /\ cpu_in.cp_times.ok
    /\ i <= Len(chunks_exact(cpu_in.cp_times.list))
    /\ WasThere(i) => /\ cpu_before.cpus[i].cp_time = CpuTime_default
                      /\ cpu_before.cpus[i].last_cp_time = CpuTime_default

\* C19: a zero-filled core still has the default usage after its first
\* update.
C19_NoUsageFromFirstSample ==
    \A i \in 1..Len(cpus) : FirstUpdate(i) => cpus[i].cpu_pct = CpuPct_default

\* The sample, previous sample and usage of a core.
Measured(c) == <<c.cp_time, c.last_cp_time, c.cpu_pct>>

\* C20: a refresh_num_cpus that reads the count n leaves exactly n entries:
\* the entries it found keep their samples and usage up to index n, and the
\* entries it adds have zero samples and zero usage.
C20_ResizeToCount ==
    (op = "refresh_num_cpus" /\ cpu_in.hw_ncpu # None) =>
        LET n == cpu_in.hw_ncpu[1] IN
        /\ Len(cpus) = n
        /\ n = Len(cpu_before.cpus) => cpus = cpu_before.cpus
        /\ \A i \in 1..Len(cpus) :
              Measured(cpus[i]) = IF WasThere(i) THEN Measured(cpu_before.cpus[i])
                                  ELSE Measured(Processor_new)

(***************************************************************************)
(* Memory and swap: C21 .. C25                                             *)
(***************************************************************************)
\* The last operation was a refresh_memory.
MemRefreshDone == op = "refresh_memory"

\* The four memory fields now and as the last operation found them.
MemFields(m) == <<m.mem_total, m.mem_free, m.swap_total, m.swap_free>>

\* A getter returned total - free without underflow.
UsedIs(total, free) == ~panicked /\ used = total - free

\* C21: in every reachable state mem_free <= mem_total and
\* swap_free <= swap_total, and get_used_memory and get_used_swap return
\* total - free without underflow.
C21_FreeWithinTotal ==
    /\ mem_free <= mem_total
    /\ swap_free <= swap_total
    /\ op = "get_used_memory" => UsedIs(mem_total, mem_free)
    /\ op = "get_used_swap" => UsedIs(swap_total, swap_free)

\* The source reported both memory figures and free exceeds total.
FreeOverTotal(in) ==
    /\ is_value(in.physmem, "Ulong")
    /\ is_value(in.free_count, "U32")
    /\ mem_free_of(in).val > mem_total_of(in)

\* C22: a refresh_memory whose source reports free > total is rejected (the
\* memory fields stay as they were), and get_used_memory returns
\* mem_total - mem_free, never an underflowed value.
C22_FreeOverTotalRejected ==
    /\ (MemRefreshDone /\ FreeOverTotal(mem_in)) =>
            /\ mem_total = mem_before.mem_total
            /\ mem_free = mem_before.mem_free
    /\ op = "get_used_memory" => UsedIs(mem_total, mem_free)

\* The swap devices of the reads in hold more than the swap total of in.
SwapUsedOverTotal(in) ==
    /\ swap_used_of(in) # None
    /\ swap_used_of(in)[1] > swap_total_of(in)

\* C23: a refresh_memory whose summed swap use exceeds the swap total it
\* read does not panic and keeps the previous swap_free.
C23_SwapUsedOverTotalRejected ==
    (MemRefreshDone /\ SwapUsedOverTotal(mem_in)) =>
        ~panicked /\ swap_free = mem_before.swap_free

\* C24: the fields a refresh_memory leaves are those a sampler with the
\* fields of System::default gets from the same reads.
C24_RecomputedWholesale ==
    (MemRefreshDone /\ ~panicked) =>
        MemFields(MemNow) = MemFields(refresh_memory_run(Memory_default, mem_in))

\* C25: a refresh_memory does not panic, and a figure whose read failed or
\* had an unexpected type keeps the value stored before.
C25_FailedReadKeepsValue ==
    MemRefreshDone =>
        /\ ~is_value(mem_in.physmem, "Ulong") => mem_total = mem_before.mem_total
        /\ ~is_value(mem_in.free_count, "U32") => mem_free = mem_before.mem_free
        /\ ~is_value(mem_in.swap_total, "U64") => swap_total = mem_before.swap_total

(***************************************************************************)
(* CPU collection: C26, C27                                                *)
(***************************************************************************)
\* C26: a refresh_cpu completes without a panic whatever kern.cp_times
\* holds, also with more groups of five values than there are cores or with
\* no core at all.
C26_NoIndexPastEnd == op = "refresh_cpu" => ~panicked

\* C27: after a refresh_num_cpus (on its own or as the first step of a
\* completed refresh_cpu) that read the count n, num_cpus is n and the
\* collection has n entries.
C27_CountStoredExactly ==
    ((op = "refresh_num_cpus" \/ CpuRefreshDone) /\ cpu_in.hw_ncpu # None) =>
        /\ num_cpus = cpu_in.hw_ncpu[1]
        /\ Len(cpus) = cpu_in.hw_ncpu[1]

(***************************************************************************)
(* Address records: C28                                                    *)
(***************************************************************************)
\* C28: of two refreshes in a row over an identical snapshot, the second
\* leaves the address-record list of every interface as long as the first
\* left it.
C28_AddressListBounded ==
    SecondOfTwo =>
        \A n \in DOMAIN interfaces \cap DOMAIN interfaces_before :
            Len(interfaces[n].ifaddrs) = Len(interfaces_before[n].ifaddrs)

====
